---------------------------- MODULE Spec2Model ----------------------------
(***************************************************************************)
(* A model of loom's request dispatcher (src/src/server.ts, the current    *)
(* version of the file: lines 278-669).                                    *)
(*                                                                         *)
(* Strings (paths, URL pathnames, header values) are sequences of tokens.  *)
(* A token stands for one or more characters that the code never splits:   *)
(* "/" , "#", "%23", "a", ".css", ...                                      *)
(***************************************************************************)
EXTENDS Integers, Sequences, FiniteSets, TLC

(***************************************************************************)
(* Bounds of the model.                                                    *)
(***************************************************************************)
\* The number of entries a public directory holds (beside the directories
\* that contain them).
MaxFiles == 2
\* The length, in chunks, of the longest static file.
MaxChunks == 2
MaxConnections == 2
MaxCloseCalls == 3

(***************************************************************************)
(* String helpers.                                                         *)
(***************************************************************************)
\* String.prototype.endsWith
EndsWith(s, suffix) ==
    /\ Len(s) >= Len(suffix)
    /\ SubSeq(s, Len(s) - Len(suffix) + 1, Len(s)) = suffix

StartsWith(s, prefix) ==
    /\ Len(s) >= Len(prefix)
    /\ SubSeq(s, 1, Len(prefix)) = prefix

\* encodeURIComponent, token by token: unreserved characters are kept, every
\* other character becomes its percent-encoding.
EncodeToken(c) ==
    CASE c = "#" -> "%23"
      [] c = "/" -> "%2F"
      [] c = "%23" -> "%2523"
      [] OTHER -> c

encodeURIComponent(s) == [i \in 1..Len(s) |-> EncodeToken(s[i])]

\* decodeURI throws a URIError on a malformed escape sequence.
decodeURIThrows(s) == \E i \in 1..Len(s) : s[i] = "%ff"

\* decodeURI decodes every escape sequence except those of reserved
\* characters ("%23" stays "%23", "%2F" stays "%2F").
DecodeURIToken(c) ==
    CASE c = "%61" -> "a"
      [] OTHER -> c

decodeURI(s) == [i \in 1..Len(s) |-> DecodeURIToken(s[i])]

\* .replace(/^\/+|\/+$/g, ''): strip every leading and trailing slash.
StripLeadingSlashes(s) ==
    LET kept == { i \in 1..Len(s) : s[i] # "/" }
    IN IF kept = {} THEN <<>>
       ELSE SubSeq(s, CHOOSE i \in kept : \A j \in kept : i <= j, Len(s))

StripTrailingSlashes(s) ==
    LET kept == { i \in 1..Len(s) : s[i] # "/" }
    IN IF kept = {} THEN <<>>
       ELSE SubSeq(s, 1, CHOOSE i \in kept : \A j \in kept : i >= j)

StripSlashes(s) == StripTrailingSlashes(StripLeadingSlashes(s))

\* String.prototype.toLowerCase / toUpperCase on method names.
toLowerCase(m) ==
    CASE m = "GET" -> "get"
      [] m = "HEAD" -> "head"
      [] m = "POST" -> "post"
      [] m = "PUT" -> "put"
      [] m = "PATCH" -> "patch"
      [] m = "DELETE" -> "delete"
      [] m = "OPTIONS" -> "options"
      [] OTHER -> m

toUpperCase(m) ==
    CASE m = "get" -> "GET"
      [] m = "head" -> "HEAD"
      [] m = "post" -> "POST"
      [] m = "put" -> "PUT"
      [] m = "patch" -> "PATCH"
      [] m = "delete" -> "DELETE"
      [] m = "options" -> "OPTIONS"
      [] OTHER -> m

\* Array.prototype.join
Join(parts, separator) ==
    IF parts = <<>> THEN <<>>
    ELSE [i \in 1..(2 * Len(parts) - 1) |->
            IF i % 2 = 1 THEN parts[(i + 1) \div 2] ELSE separator]

\* Array.prototype.filter(x => x !== undefined)
Undefined == "undefined"

IsDefined(x) == x # Undefined

FilterDefined(xs) == SelectSeq(xs, IsDefined)


(***************************************************************************)
(* Configuration.  Two configurations are modelled, after those the        *)
(* repository itself uses: one whose names URL encoding leaves alone       *)
(* ('__page.js', 'error.js' in the lifecycle test) and one whose names     *)
(* start with '#' (the defaults, '#handler.js' and '#error.js').           *)
(***************************************************************************)
publicDirectory == <<"/", "D">>

serverConfigurationDefaults ==
    [handlerFilenameSuffix |-> <<"#", "h">>, errorHandler |-> <<"#", "e">>]

Configurations ==
    { serverConfigurationDefaults,
      [handlerFilenameSuffix |-> <<"_h">>, errorHandler |-> <<"e">>] }

(***************************************************************************)
(* Requests.                                                               *)
(***************************************************************************)
\* The methods a request may carry; OPTIONS stands for every method that is
\* not routable.
Methods == {"GET", "HEAD", "POST", "PUT", "PATCH", "DELETE", "OPTIONS"}

\* new Set(['delete', 'get', 'patch', 'post', 'put', 'head']), in insertion
\* order (the order Array.from yields).
lowercasedRoutableMethods == <<"delete", "get", "patch", "post", "put", "head">>

\* A variant that takes OPTIONS for a routable method.
methodIsRoutableOrOptions(method) ==
    toLowerCase(method) = "options"
        \/ \E i \in 1..Len(lowercasedRoutableMethods) :
              lowercasedRoutableMethods[i] = toLowerCase(method)

methodIsRoutable(method) ==
    \E i \in 1..Len(lowercasedRoutableMethods) :
        lowercasedRoutableMethods[i] = toLowerCase(method)

\* The pathnames of the request URLs (new URL(request.url).pathname).
Key == <<"a", ".css">>

Pathnames ==
    { <<"/">>,
      <<"/">> \o Key,
      <<"/", "/">> \o Key \o <<"/">>,
      <<"/", "_h">>,
      <<"/">> \o Key \o <<"_h">>,
      <<"/", "%23", "h">>,
      <<"/", "e">>,
      <<"/", "%ff">> }

(***************************************************************************)
(* Paths.                                                                  *)
(***************************************************************************)
\* A variant that gives HEAD a directory of its own.
MethodAsOwnPathComponent(method) == toLowerCase(method)

MethodAsPathComponent(method) ==
    IF toLowerCase(method) = "head" THEN "get" ELSE toLowerCase(method)

getHandlerModulePath(configuration, method, requestPath) ==
    publicDirectory \o <<"/", MethodAsPathComponent(method), "/">>
        \o requestPath \o encodeURIComponent(configuration.handlerFilenameSuffix)

getStaticFilePath(configuration, method, requestPath) ==
    publicDirectory \o <<"/", MethodAsPathComponent(method), "/">> \o requestPath

getErrorModulePath(configuration) ==
    publicDirectory \o <<"/">> \o encodeURIComponent(configuration.errorHandler)

\* A variant that takes every path for an absolute one.
isAlwaysAbsolute(path) == TRUE

\* nodePath.isAbsolute
isAbsolute(path) == path # <<>> /\ path[1] = "/"

\* mime.getType: the type of the path's extension, null when none is known.
Null == "null"

getType(path) ==
    IF path = <<>> THEN Null
    ELSE CASE path[Len(path)] = ".css" -> "text/css"
           [] path[Len(path)] = ".js" -> "text/javascript"
           [] OTHER -> Null

(***************************************************************************)
(* The file system: a function from the paths of its entries (files and    *)
(* symbolic links; directories that hold an entry exist by that) to the    *)
(* entries.                                                                *)
(***************************************************************************)
\* What a file yields when it is loaded as a module.  status is the status of
\* the response its default export returns.
NoModule == [loads |-> FALSE, hasDefault |-> FALSE, isFunction |-> FALSE,
             isHandler |-> FALSE, behaviour |-> "none", status |-> 0]

HandlerModule(status) ==
    [loads |-> TRUE, hasDefault |-> TRUE, isFunction |-> TRUE,
     isHandler |-> TRUE, behaviour |-> "returns", status |-> status]

ThrowingHandlerModule ==
    [loads |-> TRUE, hasDefault |-> TRUE, isFunction |-> TRUE,
     isHandler |-> TRUE, behaviour |-> "throws", status |-> 0]

UntaggedModule ==
    [loads |-> TRUE, hasDefault |-> TRUE, isFunction |-> TRUE,
     isHandler |-> FALSE, behaviour |-> "returns", status |-> 200]

\* What a module may export as its default: a function, which requestHandler
\* tags (handler.ts 4-17), or something that is not a function.
HandlerFunction(behaviour, status) ==
    [isFunction |-> TRUE, isHandler |-> FALSE, behaviour |-> behaviour,
     status |-> status]

NotAFunction ==
    [isFunction |-> FALSE, isHandler |-> FALSE, behaviour |-> "none", status |-> 0]

requestHandler(handlerFunction) == [handlerFunction EXCEPT !.isHandler = TRUE]

\* page(pageFunction): a tagged function that renders the page.
page == requestHandler(HandlerFunction("page", 0))

ModuleWithDefault(default) ==
    [loads |-> TRUE, hasDefault |-> TRUE, isFunction |-> default.isFunction,
     isHandler |-> default.isHandler, behaviour |-> default.behaviour,
     status |-> default.status]

ModuleWithoutDefault ==
    [loads |-> TRUE, hasDefault |-> FALSE, isFunction |-> FALSE,
     isHandler |-> FALSE, behaviour |-> "none", status |-> 0]

Chunks(n) == [i \in 1..n |-> i]

File(module, content) ==
    [kind |-> "file", module |-> module, content |-> content, target |-> <<>>]

Link(target) ==
    [kind |-> "link", module |-> NoModule, content |-> <<>>, target |-> target]

Directory ==
    [kind |-> "dir", module |-> NoModule, content |-> <<>>, target |-> <<>>]

Absent ==
    [kind |-> "absent", module |-> NoModule, content |-> <<>>, target |-> <<>>]

\* path without its trailing slashes names a directory that holds entry q.
HoldsEntry(path, q) == StartsWith(q, StripTrailingSlashes(path) \o <<"/">>)

\* The entry at a path, links not followed (lstat).
Lookup(files, path) ==
    IF path \in DOMAIN files THEN files[path]
    ELSE IF \E q \in DOMAIN files : HoldsEntry(path, q) THEN Directory
    ELSE Absent

\* The directory part of a path (up to and including the last slash).
Dirname(path) ==
    LET slashes == { i \in 1..Len(path) : path[i] = "/" }
    IN IF slashes = {} THEN <<>>
       ELSE SubSeq(path, 1, CHOOSE i \in slashes : \A j \in slashes : i >= j)

\* The entry the operating system reaches at a path, links followed (at most
\* one level of links exists in the modelled file systems).
Resolve(files, path) ==
    LET entry == Lookup(files, path) IN
    IF entry.kind = "link"
    THEN LET target == IF isAbsolute(entry.target) THEN entry.target
                       ELSE Dirname(path) \o entry.target
             reached == Lookup(files, target)
         IN IF reached.kind = "link" THEN Absent ELSE reached
    ELSE entry

\* nodeFS.stat(path) resolves when the path, links followed, exists.
StatSucceeds(files, path) == Resolve(files, path).kind # "absent"

\* nodeFS.readlink(path) resolves with the target of a link and rejects for
\* anything else.
ReadlinkSucceeds(files, path) == Lookup(files, path).kind = "link"

\* A variant of open that rejects for every path.
OpenNeverSucceeds(files, path) == Resolve(files, path).kind = "none"

\* nodeFS.open(path) (flag 'r') resolves for whatever exists, directories too.
OpenSucceeds(files, path) == Resolve(files, path).kind # "absent"

\* The file a module specifier names: the specifier is read as a URL, so a
\* '#' or '?' ends the path, and the path's escape sequences are decoded.
UpToFragment(specifier) ==
    LET ends == { i \in 1..Len(specifier) : specifier[i] \in {"#", "?"} }
    IN IF ends = {} THEN specifier
       ELSE SubSeq(specifier, 1, (CHOOSE i \in ends : \A j \in ends : i <= j) - 1)

PercentDecodeToken(c) ==
    CASE c = "%23" -> "#"
      [] c = "%2523" -> "%23"
      [] OTHER -> c

ModuleFilePath(specifier) ==
    LET path == UpToFragment(specifier)
    IN [i \in 1..Len(path) |-> PercentDecodeToken(path[i])]

\* An encoded slash in a file URL is refused by the loader.
SpecifierIsValid(specifier) == \A i \in 1..Len(specifier) : specifier[i] # "%2F"

\* import(specifier): the module loaded, NoModule when the import rejects.
Import(files, specifier) ==
    LET entry == Resolve(files, ModuleFilePath(specifier)) IN
    IF SpecifierIsValid(specifier) /\ entry.kind = "file" /\ entry.module.loads
    THEN entry.module
    ELSE NoModule

\* A variant that takes any function for a handler.
isFunctionModule(module) ==
    /\ module.hasDefault
    /\ module.isFunction

\* A variant that asks for an object where a function is exported.
isRequestHandlerObjectModule(module) ==
    /\ module.hasDefault
    /\ ~module.isFunction
    /\ module.isHandler

isRequestHandlerModule(module) ==
    /\ module.hasDefault
    /\ module.isFunction
    /\ module.isHandler

\* The file systems a server may run on: at most MaxFiles entries, each at one
\* of the places below.  publicDirectory/<method>/<Key> is a static candidate,
\* publicDirectory/<method>/<Key><suffix> a handler module.
InMethodDirectory(directory, name) ==
    publicDirectory \o <<"/", directory, "/">> \o name

LinkTargetPath == publicDirectory \o <<"/", "b", ".js">>

Places(configuration) ==
    LET suffix == configuration.handlerFilenameSuffix
        source == Chunks(1)
    IN { [path |-> InMethodDirectory("get", Key),
          entries |-> { File(NoModule, Chunks(n)) : n \in 0..MaxChunks }
                        \cup { Directory, Link(<<"b", ".js">>), Link(LinkTargetPath) }],
         [path |-> InMethodDirectory("get", Key \o suffix),
          entries |-> { File(HandlerModule(418), source),
                        File(ThrowingHandlerModule, source),
                        File(UntaggedModule, source),
                        File(NoModule, source) }],
         [path |-> InMethodDirectory("post", Key),
          entries |-> { File(NoModule, Chunks(1)) }],
         [path |-> InMethodDirectory("post", Key \o suffix),
          entries |-> { File(HandlerModule(418), source) }],
         [path |-> InMethodDirectory("post", Key \o encodeURIComponent(suffix)),
          entries |-> { File(HandlerModule(418), source) }],
         [path |-> InMethodDirectory("delete", Key),
          entries |-> { Directory }],
         [path |-> InMethodDirectory("get", suffix),
          entries |-> { File(HandlerModule(418), source) }],
         [path |-> InMethodDirectory("get", suffix \o suffix),
          entries |-> { File(HandlerModule(418), source) }],
         [path |-> LinkTargetPath,
          entries |-> { File(NoModule, Chunks(MaxChunks)) }],
         [path |-> publicDirectory \o <<"/">> \o configuration.errorHandler,
          entries |-> { File(HandlerModule(410), source),
                        File(ThrowingHandlerModule, source),
                        File(UntaggedModule, source) }] }

FileSystems(configuration) ==
    UNION { { files \in [ { place.path : place \in chosen }
                           -> UNION { place.entries : place \in chosen } ] :
                \A place \in chosen : files[place.path] \in place.entries } :
            chosen \in { some \in SUBSET Places(configuration) :
                            Cardinality(some) <= MaxFiles } }

(***************************************************************************)
(* Responses.                                                              *)
(***************************************************************************)
NoHeaders == [name \in {} |-> <<>>]

NoBody == [kind |-> "none", text |-> <<>>]

TextBody(text) == [kind |-> "text", text |-> text]

StreamBody == [kind |-> "stream", text |-> <<>>]

Response(body, status, headers) ==
    [status |-> status, headers |-> headers, body |-> body]

NoResponse == Response(NoBody, 0, NoHeaders)

\* What the default export of a handler module at modulePath returns: the
\* fixtures' handlers answer with a status of their own, a custom header and
\* a text that tells the handlers apart.
HTMLBody == [kind |-> "html", text |-> <<>>]

\* A variant of page that answers with the content type alone.
PageResponseWithoutSuggestedHeaders(method, responseDetails) ==
    Response(IF method = "HEAD" THEN NoBody ELSE HTMLBody,
             responseDetails.status,
             "content-type" :> <<"text/html; charset=utf-8">>)

\* What a handler built with page returns (page.ts 42-63).
PageResponse(method, responseDetails) ==
    Response(IF method = "HEAD" THEN NoBody ELSE HTMLBody,
             responseDetails.status,
             ("content-type" :> <<"text/html; charset=utf-8">>)
                 @@ responseDetails.headers)

HandlerResponse(module, modulePath, method, responseDetails) ==
    IF module.behaviour = "page"
    THEN PageResponse(method, responseDetails)
    ELSE Response(TextBody(modulePath), module.status,
                  "custom-header" :> <<"custom header value">>)

\* The headers of a static file response (lines 478-481 and 520-523).
oneYearInSeconds == <<"31536000">>

\* Variants that leave the content type out.
HeadStaticFileHeadersWithoutType(type) ==
    "cache-control" :> (<<"max-age=">> \o oneYearInSeconds)

StaticFileHeadersWithoutType(type) ==
    "cache-control" :> (<<"max-age=">> \o oneYearInSeconds)

HeadStaticFileHeaders(type) ==
    ("cache-control" :> (<<"max-age=">> \o oneYearInSeconds))
        @@ (IF type # Null THEN "content-type" :> <<type>> ELSE NoHeaders)

StaticFileHeaders(type) ==
    ("cache-control" :> (<<"max-age=">> \o oneYearInSeconds))
        @@ (IF type # Null THEN "content-type" :> <<type>> ELSE NoHeaders)

\* The text/plain fallback of handleError.
errorMessage(status) ==
    CASE status = 400 -> <<"Bad Request">>
      [] status = 404 -> <<"Not Found">>
      [] status = 405 -> <<"Method Not Allowed">>
      [] status = 406 -> <<"Not Acceptable">>
      [] status = 500 -> <<"Internal Server Error">>
      [] status = 501 -> <<"Not Implemented">>

\* A variant that leaves the status to the Response constructor's default.
PlainTextResponseWithDefaultStatus(responseDetails) ==
    Response(TextBody(errorMessage(responseDetails.status)),
             200,
             ("content-type" :> <<"text/plain">>) @@ responseDetails.headers)

\* A variant that answers with the content type alone.
PlainTextResponseWithoutSuggestedHeaders(responseDetails) ==
    Response(TextBody(errorMessage(responseDetails.status)),
             responseDetails.status,
             "content-type" :> <<"text/plain">>)

PlainTextResponse(responseDetails) ==
    Response(TextBody(errorMessage(responseDetails.status)),
             responseDetails.status,
             ("content-type" :> <<"text/plain">>) @@ responseDetails.headers)

SuggestedResponseDetails(status, headers) ==
    [status |-> status, headers |-> headers]

(***************************************************************************)
(* The Allow probe (lines 532-559): per routable method, stat the handler  *)
(* module path and, when that rejects, the static file path.               *)
(***************************************************************************)
ProbeMethod(configuration, files, method, requestPath) ==
    IF StatSucceeds(files, getHandlerModulePath(configuration, method, requestPath))
    THEN method
    ELSE IF StatSucceeds(files, getStaticFilePath(configuration, method, requestPath))
         THEN method
         ELSE Undefined

allowedMethods(configuration, files, requestPath) ==
    FilterDefined([i \in 1..Len(lowercasedRoutableMethods) |->
        ProbeMethod(configuration, files, lowercasedRoutableMethods[i], requestPath)])

\* A variant that leaves the allow header empty.
EmptyAllowHeader(allowed) == <<>>

AllowHeader(allowed) ==
    Join([i \in 1..Len(allowed) |-> toUpperCase(allowed[i])], ", ")

IO(operation, path) == [operation |-> operation, path |-> path]

\* The stat calls of the probe: every handler module path, then the static
\* file path of each method whose handler module path does not exist.
StaticProbes(configuration, files, methods, requestPath) ==
    LET HasNoHandler(method) ==
            ~StatSucceeds(files,
                getHandlerModulePath(configuration, method, requestPath))
        without == SelectSeq(methods, HasNoHandler)
    IN [i \in 1..Len(without) |->
            IO("stat", getStaticFilePath(configuration, without[i], requestPath))]

ProbeCalls(configuration, files, requestPath) ==
    [i \in 1..Len(lowercasedRoutableMethods) |->
        IO("stat", getHandlerModulePath(configuration,
                       lowercasedRoutableMethods[i], requestPath))]
    \o StaticProbes(configuration, files, lowercasedRoutableMethods, requestPath)

(***************************************************************************)
(* State.                                                                  *)
(***************************************************************************)
VARIABLES
    cfg,            \* the server's configuration, with the defaults applied
    fs,             \* the file system under publicDirectory
    request,        \* the request being handled: [method, pathname]
    pc,             \* where the request's task stands (its pending await)
    requestPath,    \* createRequestHandler's requestPath
    suggested,      \* the response details of the pending handler or error import
    staticFilePath, \* handleRequestForStaticFile's staticFilePath
    mimeType,       \* handleRequestForStaticFile's mimeType
    staticFile,     \* the file handle: [state, path, closeCalls]
    stream,         \* fileStream, its reader's loop and fileHandleClosingStream
    consumer,       \* the consumer of the response body
    response,       \* the Response the request's promise is fulfilled with
    server,         \* the node server behind createServer and its promises
    serverResponse, \* the raw response of the connection
    adapter,        \* the task of writeWebResponseToServerResponse
    probes,         \* the existence probes of the catch, one per routable method
    layers,         \* history: the layers of the dispatcher entered, in order
    io,             \* history: the imports and file system calls made, in order
    invoked,        \* history: the handlers invoked and what they were given
    log             \* history: what was written to the console

vars == <<cfg, fs, request, pc, requestPath, suggested, staticFilePath, mimeType,
          staticFile, stream, consumer, response, layers, io, invoked, log,
          server, serverResponse, adapter, probes>>

\* The state of the request's task in createRequestHandler.
dispatcherVars ==
    <<cfg, fs, request, pc, requestPath, suggested, staticFilePath, mimeType,
      staticFile, stream, consumer, response, layers, io, invoked, log, probes>>

NoRequest == [method |-> "", pathname |-> <<>>]

NoFile == [state |-> "none", path |-> <<>>, closeCalls |-> 0]

NoStream == [state |-> "none", queue |-> <<>>, closeRequested |-> FALSE,
             locked |-> FALSE, position |-> 0, loop |-> "none"]

NoConsumer == [received |-> <<>>, cancelled |-> FALSE]

\* nodeHTTP.createServer(...): no listening handle, no connection, and
\* neither listen nor close called yet.
NoServer ==
    [handle |-> FALSE, listenPromise |-> "none", listenEvent |-> "none",
     connections |-> 0, closePromises |-> <<>>]

\* A ServerResponse nothing was set on: Node's default status is 200.
NoHead == [statusCode |-> 200, statusMessage |-> <<>>, headers |-> NoHeaders]

NoServerResponse ==
    [head |-> NoHead, sent |-> NoHead, headersSent |-> FALSE, written |-> 0,
     finished |-> FALSE, finishings |-> 0, destroyed |-> FALSE, endCalls |-> 0]

\* A web Response as the adapter reads it: status, statusText, headers, and
\* the body, absent or a stream of chunks.
WebResponse(status, statusText, headers, hasBody, chunks) ==
    [status |-> status, statusText |-> statusText, headers |-> headers,
     hasBody |-> hasBody, chunks |-> chunks]

NoWebResponse == WebResponse(0, <<>>, NoHeaders, FALSE, 0)

\* No probe was started.
NoProbes == [stage |-> <<>>, results |-> <<>>]

NoAdapter ==
    [pc |-> "none", webResponse |-> NoWebResponse, remaining |-> 0,
     logged |-> FALSE]

Init ==
    /\ cfg \in Configurations
    /\ fs \in FileSystems(cfg)
    /\ request = NoRequest
    /\ pc = "Idle"
    /\ requestPath = <<>>
    /\ suggested = SuggestedResponseDetails(0, NoHeaders)
    /\ staticFilePath = <<>>
    /\ mimeType = Null
    /\ staticFile = NoFile
    /\ stream = NoStream
    /\ consumer = NoConsumer
    /\ response = NoResponse
    /\ layers = <<>>
    /\ io = <<>>
    /\ invoked = <<>>
    /\ log = <<>>
    /\ server = NoServer
    /\ serverResponse = NoServerResponse
    /\ adapter = NoAdapter
    /\ probes = NoProbes

(***************************************************************************)
(* The dispatcher.  One action per step of the request's task between two  *)
(* awaits.                                                                 *)
(***************************************************************************)
\* handleError up to its import (lines 581-587).
handleError(responseDetails, layersSoFar, ioSoFar) ==
    /\ suggested' = responseDetails
    /\ layers' = Append(layersSoFar, "ErrorChain")
    /\ io' = Append(ioSoFar, IO("import", getErrorModulePath(cfg)))
    /\ pc' = "ErrorImport"

\* FileHandle.close()
Close(file) == [file EXCEPT !.state = "closed", !.closeCalls = @ + 1]

Invocation(modulePath, method, responseDetails) ==
    [module |-> modulePath, method |-> method, details |-> responseDetails]

\* createRequestHandler up to the import of the handler module (lines
\* 367-395 and 416-420).
HandleRequest(method, pathname) ==
    /\ pc = "Idle"
    /\ request' = [method |-> method, pathname |-> pathname]
    /\ IF ~methodIsRoutable(method)
       THEN /\ handleError(SuggestedResponseDetails(501, NoHeaders),
                           <<"MethodCheck">>, io)
            /\ UNCHANGED requestPath
       ELSE IF decodeURIThrows(pathname)
       THEN /\ pc' = "Rejected"
            /\ layers' = <<"MethodCheck">>
            /\ UNCHANGED <<requestPath, suggested, io>>
       ELSE /\ requestPath' = StripSlashes(decodeURI(pathname))
            /\ suggested' = SuggestedResponseDetails(200, NoHeaders)
            /\ layers' = <<"MethodCheck", "HandlerLookup">>
            /\ io' = Append(io, IO("import",
                        getHandlerModulePath(cfg, method, requestPath')))
            /\ pc' = "HandlerImport"
    /\ UNCHANGED <<probes, server, serverResponse, adapter, cfg, fs, staticFilePath, mimeType, staticFile, stream,
                   consumer, response, invoked, log>>

\* A variant of the first guard that compares the whole path with the suffix.
IsHandlerSuffix(configuration, path) ==
    path = configuration.handlerFilenameSuffix

\* The guard clauses of handleRequestForStaticFile (lines 439 and 444).
\* A variant of the guard that turns every path away.
GuardsEveryPath(configuration, path) == TRUE

EndsInHandlerSuffix(configuration, path) ==
    EndsWith(path, configuration.handlerFilenameSuffix)

\* A variant that takes no path for the error handler's.
IsNeverErrorHandlerPath(configuration, path) == FALSE

IsErrorHandlerPath(configuration, path) == path = configuration.errorHandler

\* The import of the handler module settles (lines 420-428); when it
\* rejects, or the handler throws, the catch of lines 396-407 runs
\* handleRequestForStaticFile up to its readlink (lines 436-455).
HandlerImportSettles ==
    /\ pc = "HandlerImport"
    /\ LET specifier == getHandlerModulePath(cfg, request.method, requestPath)
           module == Import(fs, specifier)
           valid == module.loads /\ isRequestHandlerModule(module)
           called == IF valid
                     THEN Append(invoked, Invocation(ModuleFilePath(specifier),
                                                     request.method, suggested))
                     ELSE invoked
           logged == log \o <<"Could not handle dynamically",
                              "Falling back to a static file">>
           entered == Append(layers, "StaticLookup")
       IN /\ invoked' = called
          /\ IF valid /\ module.behaviour # "throws"
             THEN /\ response' = HandlerResponse(module, ModuleFilePath(specifier),
                                                 request.method, suggested)
                  /\ pc' = "Responded"
                  /\ UNCHANGED <<suggested, staticFilePath, layers, io, log>>
             ELSE IF EndsInHandlerSuffix(cfg, requestPath)
             THEN /\ log' = Append(logged, "Request path ends in handler suffix")
                  /\ handleError(SuggestedResponseDetails(404, NoHeaders), entered, io)
                  /\ UNCHANGED <<response, staticFilePath>>
             ELSE IF IsErrorHandlerPath(cfg, requestPath)
             THEN /\ log' = Append(logged, "Request path was for error handler")
                  /\ handleError(SuggestedResponseDetails(404, NoHeaders), entered, io)
                  /\ UNCHANGED <<response, staticFilePath>>
             ELSE /\ log' = logged
                  /\ layers' = entered
                  /\ staticFilePath' =
                        getStaticFilePath(cfg, request.method, requestPath)
                  /\ io' = Append(io, IO("readlink", staticFilePath'))
                  /\ pc' = "Readlink"
                  /\ UNCHANGED <<response, suggested>>
    /\ UNCHANGED <<probes, server, serverResponse, adapter, cfg, fs, request, requestPath, mimeType, staticFile, stream,
                   consumer>>

\* readlink settles; the path is resolved, the MIME type computed and the
\* file opened (lines 455-466).
ResolvedStaticFilePath(configuration, files, path) ==
    IF ReadlinkSucceeds(files, path)
    THEN LET target == Lookup(files, path).target
         IN IF ~isAbsolute(target)
            THEN publicDirectory \o <<"/">> \o target
            ELSE target
    ELSE path

ReadlinkSettles ==
    /\ pc = "Readlink"
    /\ staticFilePath' = ResolvedStaticFilePath(cfg, fs, staticFilePath)
    /\ mimeType' = getType(staticFilePath')
    /\ io' = Append(io, IO("open", staticFilePath'))
    /\ pc' = "Open"
    /\ UNCHANGED <<probes, server, serverResponse, adapter, cfg, fs, request, requestPath, suggested, staticFile, stream,
                   consumer, response, layers, invoked, log>>

\* The catch of lines 525-559 from the probe on: the stat calls are made
\* and Promise.all is awaited.
StartAllowProbe(ioSoFar) ==
    /\ layers' = Append(layers, "AllowProbe")
    /\ io' = ioSoFar \o ProbeCalls(cfg, fs, requestPath)
    /\ pc' = "AllowProbe"

\* open settles (line 466); when it rejects, staticFile is undefined and the
\* catch goes on to the probe.
OpenSettles ==
    /\ pc = "Open"
    /\ IF OpenSucceeds(fs, staticFilePath)
       THEN /\ staticFile' = [state |-> "open", path |-> staticFilePath,
                              closeCalls |-> 0]
            /\ io' = Append(io, IO("fstat", staticFilePath))
            /\ pc' = "Stat"
            /\ UNCHANGED <<layers, log>>
       ELSE /\ log' = Append(log, "Could not handle as a static file")
            /\ StartAllowProbe(io)
            /\ UNCHANGED staticFile
    /\ UNCHANGED <<probes, server, serverResponse, adapter, cfg, fs, request, requestPath, suggested, staticFilePath,
                   mimeType, stream, consumer, response, invoked>>

\* stat settles (lines 467-524): a HEAD request closes the file, any other
\* gets the body stream, whose start function takes fileStream's reader and
\* issues the first read at once; anything but a regular file is thrown to
\* the catch, which closes the file (line 530).
StatSettles ==
    /\ pc = "Stat"
    /\ IF Resolve(fs, staticFilePath).kind = "file"
       THEN IF request.method = "HEAD"
            THEN /\ staticFile' = Close(staticFile)
                 /\ io' = Append(io, IO("close", staticFile.path))
                 /\ pc' = "HeadClose"
                 /\ UNCHANGED <<stream, response, log>>
            ELSE /\ stream' = [state |-> "readable", queue |-> <<>>,
                               closeRequested |-> FALSE, locked |-> TRUE,
                               position |-> 0, loop |-> "reading"]
                 /\ response' = Response(StreamBody, 200, StaticFileHeaders(mimeType))
                 /\ pc' = "Responded"
                 /\ UNCHANGED <<staticFile, io, log>>
       ELSE /\ log' = Append(log, "Could not handle as a static file")
            /\ staticFile' = Close(staticFile)
            /\ io' = Append(io, IO("close", staticFile.path))
            /\ pc' = "CatchClose"
            /\ UNCHANGED <<stream, response>>
    /\ UNCHANGED <<probes, server, serverResponse, adapter, cfg, fs, request, requestPath, suggested, staticFilePath,
                   mimeType, consumer, layers, invoked>>

\* The close of a HEAD request settles (lines 475-482).
HeadCloseSettles ==
    /\ pc = "HeadClose"
    /\ response' = Response(NoBody, 200, HeadStaticFileHeaders(mimeType))
    /\ pc' = "Responded"
    /\ UNCHANGED <<probes, server, serverResponse, adapter, cfg, fs, request, requestPath, suggested, staticFilePath,
                   mimeType, staticFile, stream, consumer, layers, io, invoked, log>>

\* The close of the catch settles (line 530).
CatchCloseSettles ==
    /\ pc = "CatchClose"
    /\ StartAllowProbe(io)
    /\ UNCHANGED <<probes, server, serverResponse, adapter, cfg, fs, request, requestPath, suggested, staticFilePath,
                   mimeType, staticFile, stream, consumer, response, invoked, log>>

\* Promise.all settles (lines 559-577).
AllowProbeSettles ==
    /\ pc = "AllowProbe"
    /\ LET allowed == allowedMethods(cfg, fs, requestPath)
       IN IF Len(allowed) > 0
          THEN handleError(SuggestedResponseDetails(405,
                               "allow" :> AllowHeader(allowed)), layers, io)
          ELSE handleError(SuggestedResponseDetails(404, NoHeaders), layers, io)
    /\ UNCHANGED <<probes, server, serverResponse, adapter, cfg, fs, request, requestPath, staticFilePath, mimeType,
                   staticFile, stream, consumer, response, invoked, log>>

\* The import of the error module settles (lines 587-620).
ErrorImportSettles ==
    /\ pc = "ErrorImport"
    /\ LET specifier == getErrorModulePath(cfg)
           module == Import(fs, specifier)
           valid == module.loads /\ isRequestHandlerModule(module)
       IN /\ invoked' = IF valid
                        THEN Append(invoked, Invocation(ModuleFilePath(specifier),
                                                        request.method, suggested))
                        ELSE invoked
          /\ response' = IF valid /\ module.behaviour # "throws"
                         THEN HandlerResponse(module, ModuleFilePath(specifier),
                                              request.method, suggested)
                         ELSE PlainTextResponse(suggested)
    /\ pc' = "Responded"
    /\ UNCHANGED <<probes, server, serverResponse, adapter, cfg, fs, request, requestPath, suggested, staticFilePath,
                   mimeType, staticFile, stream, consumer, layers, io, log>>

(***************************************************************************)
(* The body of a static file response (lines 491-516): fileStream, the     *)
(* loop of the start function that reads it, fileHandleClosingStream and   *)
(* the consumer of the response body.                                      *)
(***************************************************************************)
FileContent == Resolve(fs, staticFile.path).content

\* ReadableStreamDefaultControllerCanCloseOrEnqueue: enqueue and close throw
\* when it does not hold.
CanCloseOrEnqueue(body) == body.state = "readable" /\ ~body.closeRequested

\* A variant of the loop's end that leaves the file to the cancel function.
LoopEndsWithoutClose(body) ==
    /\ stream' = [body EXCEPT !.loop = "ended"]
    /\ UNCHANGED <<staticFile, io>>

\* The finally of the loop (line 509).
LoopEnds(body) ==
    /\ stream' = [body EXCEPT !.loop = "ended"]
    /\ staticFile' = Close(staticFile)
    /\ io' = Append(io, IO("close", staticFile.path))

\* reader.read() yields a chunk (lines 499-504).  enqueue throws on a stream
\* that is no longer readable; controller.error then does nothing.
LoopReadsChunk ==
    /\ stream.loop = "reading"
    /\ stream.position < Len(FileContent)
    /\ LET read == [stream EXCEPT !.position = @ + 1]
       IN IF CanCloseOrEnqueue(stream)
          THEN /\ stream' = [read EXCEPT
                                !.queue = Append(@, FileContent[read.position])]
               /\ UNCHANGED <<staticFile, io>>
          ELSE LoopEnds(read)
    /\ UNCHANGED <<probes, server, serverResponse, adapter, cfg, fs, request, pc, requestPath, suggested, staticFilePath,
                   mimeType, consumer, response, layers, invoked, log>>

\* reader.read() yields done (lines 500-503): controller.close() closes the
\* stream at once when its queue is empty, and when the queue drains
\* otherwise.
LoopReadsEnd ==
    /\ stream.loop = "reading"
    /\ stream.position = Len(FileContent)
    /\ LoopEnds(IF CanCloseOrEnqueue(stream)
                THEN IF stream.queue = <<>>
                     THEN [stream EXCEPT !.state = "closed"]
                     ELSE [stream EXCEPT !.closeRequested = TRUE]
                ELSE stream)
    /\ UNCHANGED <<probes, server, serverResponse, adapter, cfg, fs, request, pc, requestPath, suggested, staticFilePath,
                   mimeType, consumer, response, layers, invoked, log>>

\* reader.read() rejects (lines 506-507): controller.error errors a readable
\* stream and drops its queue.
LoopReadFails ==
    /\ stream.loop = "reading"
    /\ LoopEnds(IF stream.state = "readable"
                THEN [stream EXCEPT !.state = "errored", !.queue = <<>>]
                ELSE stream)
    /\ UNCHANGED <<probes, server, serverResponse, adapter, cfg, fs, request, pc, requestPath, suggested, staticFilePath,
                   mimeType, consumer, response, layers, invoked, log>>

\* The consumer takes the next chunk of the body.
ConsumerReads ==
    /\ stream.state = "readable"
    /\ stream.queue # <<>>
    /\ consumer' = [consumer EXCEPT !.received = Append(@, Head(stream.queue))]
    /\ stream' = [stream EXCEPT
                     !.queue = Tail(@),
                     !.state = IF Tail(stream.queue) = <<>> /\ stream.closeRequested
                               THEN "closed" ELSE @]
    /\ UNCHANGED <<probes, server, serverResponse, adapter, cfg, fs, request, pc, requestPath, suggested, staticFilePath,
                   mimeType, staticFile, response, layers, io, invoked, log>>

\* A variant of the cancel function that closes the file whatever
\* fileStream.cancel does.
CancelAlwaysClosesFile(body) == body.locked \/ ~body.locked

\* The cancel function (lines 512-515) closes the file only when
\* fileStream.cancel(reason) resolves, and ReadableStream.cancel rejects on a
\* stream that is locked to a reader.
CancelClosesFile(body) == ~body.locked

\* The consumer cancels the body (the client disconnects): the stream is
\* closed, its queue dropped and the cancel function called.
ConsumerCancels ==
    /\ stream.state = "readable"
    /\ consumer' = [consumer EXCEPT !.cancelled = TRUE]
    /\ stream' = [stream EXCEPT !.state = "closed", !.queue = <<>>]
    /\ IF CancelClosesFile(stream)
       THEN /\ staticFile' = Close(staticFile)
            /\ io' = Append(io, IO("close", staticFile.path))
       ELSE UNCHANGED <<staticFile, io>>
    /\ UNCHANGED <<probes, server, serverResponse, adapter, cfg, fs, request, pc, requestPath, suggested, staticFilePath,
                   mimeType, response, layers, invoked, log>>

(***************************************************************************)
(* Specifications.                                                         *)
(***************************************************************************)
Next ==
    \/ \E method \in Methods, pathname \in Pathnames : HandleRequest(method, pathname)
    \/ HandlerImportSettles
    \/ ReadlinkSettles
    \/ OpenSettles
    \/ StatSettles
    \/ HeadCloseSettles
    \/ CatchCloseSettles
    \/ AllowProbeSettles
    \/ ErrorImportSettles
    \/ LoopReadsChunk
    \/ LoopReadsEnd
    \/ LoopReadFails
    \/ ConsumerReads
    \/ ConsumerCancels

Spec == Init /\ [][Next]_vars

\* What the event loop is relied on for once a file is open: the pending
\* stat settles and the loop of the body's start function goes on reading.
\* Nothing obliges the consumer to read or to cancel, nor a read to fail.
Fairness ==
    /\ WF_vars(StatSettles)
    /\ WF_vars(LoopReadsChunk)
    /\ WF_vars(LoopReadsEnd)

FairSpec == Spec /\ Fairness

\* handleError on its own (lines 581-621), with every response details its
\* type admits.
AllowHeaders ==
    { AllowHeader(<<"get", "head">>), AllowHeader(<<"post">>) }

ErrorResponseDetails ==
    { SuggestedResponseDetails(status, NoHeaders) :
          status \in {400, 404, 406, 500, 501} }
    \cup { SuggestedResponseDetails(405, "allow" :> allow) : allow \in AllowHeaders }

\* errorHandler is a path relative to publicDirectory (lines 298-305): one in
\* a directory of its own is configured here too.
ErrorChainConfigurations ==
    Configurations
        \cup { [handlerFilenameSuffix |-> <<"_h">>, errorHandler |-> <<"s", "/", "e">>] }

InitErrorChain ==
    /\ cfg \in ErrorChainConfigurations
    /\ fs \in FileSystems(cfg)
    /\ request \in [method : {"GET", "OPTIONS"}, pathname : {<<"/", "e">>}]
    /\ suggested \in ErrorResponseDetails
    /\ pc = "ErrorImport"
    /\ requestPath = <<>>
    /\ staticFilePath = <<>>
    /\ mimeType = Null
    /\ staticFile = NoFile
    /\ stream = NoStream
    /\ consumer = NoConsumer
    /\ response = NoResponse
    /\ layers = <<"ErrorChain">>
    /\ io = <<IO("import", getErrorModulePath(cfg))>>
    /\ invoked = <<>>
    /\ log = <<>>
    /\ server = NoServer
    /\ serverResponse = NoServerResponse
    /\ adapter = NoAdapter
    /\ probes = NoProbes

ErrorChainSpec == InitErrorChain /\ [][ErrorImportSettles]_vars

(***************************************************************************)
(* The error chain over every shape of module the error handler path may   *)
(* hold.                                                                   *)
(***************************************************************************)
HandlerFunctions ==
    { HandlerFunction("returns", 410), HandlerFunction("throws", 0),
      HandlerFunction("page", 0) }

ModuleShapes ==
    { NoModule, ModuleWithoutDefault, ModuleWithDefault(NotAFunction),
      ModuleWithDefault(page) }
    \cup { ModuleWithDefault(f) : f \in HandlerFunctions }
    \cup { ModuleWithDefault(requestHandler(f)) : f \in HandlerFunctions }

ModuleFileSystems(configuration) ==
    { ModuleFilePath(getErrorModulePath(configuration)) :> File(module, Chunks(1)) :
          module \in ModuleShapes }

InitModules ==
    /\ cfg \in Configurations
    /\ fs \in ModuleFileSystems(cfg)
    /\ request \in [method : {"GET", "HEAD", "OPTIONS"}, pathname : {<<"/", "e">>}]
    /\ suggested \in ErrorResponseDetails
    /\ pc = "ErrorImport"
    /\ requestPath = <<>>
    /\ staticFilePath = <<>>
    /\ mimeType = Null
    /\ staticFile = NoFile
    /\ stream = NoStream
    /\ consumer = NoConsumer
    /\ response = NoResponse
    /\ layers = <<"ErrorChain">>
    /\ io = <<IO("import", getErrorModulePath(cfg))>>
    /\ invoked = <<>>
    /\ log = <<>>
    /\ server = NoServer
    /\ serverResponse = NoServerResponse
    /\ adapter = NoAdapter
    /\ probes = NoProbes

ModuleSpec == InitModules /\ [][ErrorImportSettles]_vars

(***************************************************************************)
(* The server's lifecycle (createServer, lines 338-363).  listen and close *)
(* wrap server.listen and server.close of node:http in promises.           *)
(***************************************************************************)
ClosePromise(listening) == [listening |-> listening, state |-> "pending"]

\* listen(port): the promise's executor calls server.listen with a callback
\* for the 'listening' event.  A free port gives the server its handle at
\* once and the event on a later tick; a port in use gives an 'error' event
\* on a later tick.
Listen(portIsFree) ==
    /\ server.listenPromise = "none"
    /\ \A i \in 1..Len(server.closePromises) :
          server.closePromises[i].state # "pending"
    /\ server' = [server EXCEPT !.listenPromise = "pending",
                                !.handle = portIsFree,
                                !.listenEvent =
                                    IF portIsFree THEN "listening" ELSE "error"]
    /\ UNCHANGED <<dispatcherVars, serverResponse, adapter>>

\* 'listening' is emitted: the callback resolves the promise.
ListenSettles ==
    /\ server.listenEvent = "listening"
    /\ server' = [server EXCEPT !.listenPromise = "resolved",
                                !.listenEvent = "emitted"]
    /\ UNCHANGED <<dispatcherVars, serverResponse, adapter>>

\* 'error' is emitted: the server has no listener for it, the error is thrown
\* as an uncaught exception and nothing settles the promise.
ListenFails ==
    /\ server.listenEvent = "error"
    /\ server' = [server EXCEPT !.listenEvent = "uncaught"]
    /\ UNCHANGED <<dispatcherVars, serverResponse, adapter>>

\* A client connects to the listening server.
Connect ==
    /\ server.handle
    /\ server.listenPromise = "resolved"
    /\ server.connections < MaxConnections
    /\ server' = [server EXCEPT !.connections = @ + 1]
    /\ UNCHANGED <<dispatcherVars, serverResponse, adapter>>

\* A connection ends.
ConnectionEnds ==
    /\ server.connections > 0
    /\ server' = [server EXCEPT !.connections = @ - 1]
    /\ UNCHANGED <<dispatcherVars, serverResponse, adapter>>

\* close(): server.close registers its callback for 'close' (with an error
\* when the server has no handle) and closes the handle.
CloseServer ==
    /\ server.listenEvent \in {"none", "emitted"}
    /\ Len(server.closePromises) < MaxCloseCalls
    /\ server' = [server EXCEPT
                     !.closePromises = Append(@, ClosePromise(server.handle)),
                     !.handle = FALSE]
    /\ UNCHANGED <<dispatcherVars, serverResponse, adapter>>

\* The server without a handle emits 'close' only when it has no connection.
HandleClosed(s) == ~s.handle

Drained(s) == ~s.handle /\ s.connections = 0

\* The callback of server.close (lines 358-360).
SettleClose(promise) ==
    [promise EXCEPT !.state = IF promise.state # "pending" THEN promise.state
                              ELSE IF promise.listening THEN "resolved"
                              ELSE "rejected"]

\* 'close' is emitted: every registered callback runs.
CloseSettles ==
    /\ Drained(server)
    /\ \E i \in 1..Len(server.closePromises) :
          server.closePromises[i].state = "pending"
    /\ server' = [server EXCEPT !.closePromises =
                     [i \in 1..Len(@) |-> SettleClose(@[i])]]
    /\ UNCHANGED <<dispatcherVars, serverResponse, adapter>>

LifecycleNext ==
    \/ \E portIsFree \in BOOLEAN : Listen(portIsFree)
    \/ ListenSettles
    \/ ListenFails
    \/ Connect
    \/ ConnectionEnds
    \/ CloseServer
    \/ CloseSettles

\* The dispatcher at rest: only the lifecycle moves.
InitLifecycle ==
    /\ cfg \in Configurations
    /\ fs = [path \in {} |-> Absent]
    /\ request = NoRequest
    /\ pc = "Idle"
    /\ requestPath = <<>>
    /\ suggested = SuggestedResponseDetails(0, NoHeaders)
    /\ staticFilePath = <<>>
    /\ mimeType = Null
    /\ staticFile = NoFile
    /\ stream = NoStream
    /\ consumer = NoConsumer
    /\ response = NoResponse
    /\ layers = <<>>
    /\ io = <<>>
    /\ invoked = <<>>
    /\ log = <<>>
    /\ server = NoServer
    /\ serverResponse = NoServerResponse
    /\ adapter = NoAdapter
    /\ probes = NoProbes

LifecycleSpec == InitLifecycle /\ [][LifecycleNext]_vars

\* Connections end and pending events are emitted.
LifecycleFairness ==
    /\ WF_vars(ConnectionEnds)
    /\ WF_vars(CloseSettles)
    /\ WF_vars(ListenSettles)

FairLifecycleSpec == LifecycleSpec /\ LifecycleFairness

(***************************************************************************)
(* The transport adapter: writeWebResponseToServerResponse copies a web    *)
(* Response onto the raw response of the connection.                       *)
(***************************************************************************)
\* serverResponse.statusCode = ..., statusMessage = ..., setHeaders(...).
SetHead(raw, webResponse) ==
    [raw EXCEPT !.head = [statusCode |-> webResponse.status,
                          statusMessage |-> webResponse.statusText,
                          headers |-> webResponse.headers]]

\* The head goes out, as it stands, with the first write or with end.
FlushHead(raw) ==
    IF raw.headersSent THEN raw
    ELSE [raw EXCEPT !.sent = raw.head, !.headersSent = TRUE]

\* serverResponse.write(chunk), called by the pipe.
WriteChunk(raw) == [FlushHead(raw) EXCEPT !.written = @ + 1]

\* A variant of end that finishes the response whenever it is called.
EndRegardless(raw) ==
    [FlushHead(raw) EXCEPT !.finished = TRUE, !.finishings = @ + 1,
                           !.endCalls = @ + 1]

\* serverResponse.end(...): finishes the response unless it is finished.
End(raw) ==
    IF raw.finished
    THEN [raw EXCEPT !.endCalls = @ + 1]
    ELSE [FlushHead(raw) EXCEPT !.finished = TRUE, !.finishings = @ + 1,
                                !.endCalls = @ + 1]

\* The pipe aborts its destination: the raw response is destroyed.
Destroy(raw) == [raw EXCEPT !.destroyed = TRUE]

\* Lines 45-50: the head is set; a body is piped, none goes to the finally.
WriteHead ==
    /\ adapter.pc = "Start"
    /\ serverResponse' = SetHead(serverResponse, adapter.webResponse)
    /\ adapter' = [adapter EXCEPT !.pc = IF adapter.webResponse.hasBody
                                         THEN "Piping" ELSE "Finally"]
    /\ UNCHANGED <<dispatcherVars, server>>

\* pipeTo moves a chunk of the body to the raw response.
PipeWritesChunk ==
    /\ adapter.pc = "Piping"
    /\ adapter.remaining > 0
    /\ serverResponse' = WriteChunk(serverResponse)
    /\ adapter' = [adapter EXCEPT !.remaining = @ - 1]
    /\ UNCHANGED <<dispatcherVars, server>>

\* The body is done: pipeTo closes its destination, which ends the raw
\* response, and resolves.
PipeCloses ==
    /\ adapter.pc = "Piping"
    /\ adapter.remaining = 0
    /\ serverResponse' = End(serverResponse)
    /\ adapter' = [adapter EXCEPT !.pc = "Finally"]
    /\ UNCHANGED <<dispatcherVars, server>>

\* The body errors: pipeTo aborts its destination and rejects; the catch
\* logs the error (line 51).
PipeFails ==
    /\ adapter.pc = "Piping"
    /\ serverResponse' = Destroy(serverResponse)
    /\ adapter' = [adapter EXCEPT !.pc = "Finally", !.logged = TRUE]
    /\ UNCHANGED <<dispatcherVars, server>>

\* The finally (line 53): serverResponse.end(resolve).
EndServerResponse ==
    /\ adapter.pc = "Finally"
    /\ serverResponse' = End(serverResponse)
    /\ adapter' = [adapter EXCEPT !.pc = "AwaitEnd"]
    /\ UNCHANGED <<dispatcherVars, server>>

\* The callback of end runs and the adapter returns.
EndSettles ==
    /\ adapter.pc = "AwaitEnd"
    /\ adapter' = [adapter EXCEPT !.pc = "Returned"]
    /\ UNCHANGED <<dispatcherVars, server, serverResponse>>

TransportNext ==
    \/ WriteHead
    \/ PipeWritesChunk
    \/ PipeCloses
    \/ PipeFails
    \/ EndServerResponse
    \/ EndSettles

\* The responses handed to the adapter (line 349): with and without status
\* text and headers, without a body and with a body of up to MaxChunks chunks.
WebResponses ==
    { WebResponse(status, statusText, headers, hasBody, chunks) :
        status \in {200, 404},
        statusText \in {<<>>, <<"Gone">>},
        headers \in {NoHeaders, "content-type" :> <<"text/plain">>},
        hasBody \in BOOLEAN,
        chunks \in 0..MaxChunks }

\* The request's promise is fulfilled: the adapter is about to start.
InitTransport ==
    /\ cfg = serverConfigurationDefaults
    /\ fs = [path \in {} |-> Absent]
    /\ request = [method |-> "GET", pathname |-> <<"/">>]
    /\ pc = "Responded"
    /\ requestPath = <<>>
    /\ suggested = SuggestedResponseDetails(0, NoHeaders)
    /\ staticFilePath = <<>>
    /\ mimeType = Null
    /\ staticFile = NoFile
    /\ stream = NoStream
    /\ consumer = NoConsumer
    /\ layers = <<>>
    /\ io = <<>>
    /\ invoked = <<>>
    /\ log = <<>>
    /\ server = NoServer
    /\ serverResponse = NoServerResponse
    /\ probes = NoProbes
    /\ \E webResponse \in WebResponses :
          /\ webResponse.hasBody \/ webResponse.chunks = 0
          /\ response = Response(IF webResponse.hasBody THEN StreamBody ELSE NoBody,
                                 webResponse.status, webResponse.headers)
          /\ adapter = [pc |-> "Start", webResponse |-> webResponse,
                        remaining |-> webResponse.chunks, logged |-> FALSE]

TransportSpec == InitTransport /\ [][TransportNext]_vars

(***************************************************************************)
(* The Allow probe, stat by stat (lines 533-559): Promise.all over one     *)
(* chain of promises per routable method, the stat calls settling in any   *)
(* order.                                                                  *)
(***************************************************************************)
\* A variant that collects the results in the order the probes complete.
SettleProbeInCompletionOrder(results, i, value) ==
    <<value>> \o SubSeq(results, 1, Len(results) - 1)

\* Promise.all keeps the result of a promise at the promise's index.
SettleProbe(results, i, value) == [results EXCEPT ![i] = value]

\* The stat of a handler module path settles: then(_ => method), or the
\* catch that stats the static file path.
ProbeHandlerStatSettles(i) ==
    /\ pc = "AllowProbe"
    /\ i \in 1..Len(probes.stage)
    /\ probes.stage[i] = "handler"
    /\ LET method == lowercasedRoutableMethods[i]
       IN IF StatSucceeds(fs, getHandlerModulePath(cfg, method, requestPath))
          THEN /\ probes' = [stage |-> [probes.stage EXCEPT ![i] = "done"],
                             results |-> SettleProbe(probes.results, i, method)]
               /\ UNCHANGED io
          ELSE /\ probes' = [probes EXCEPT !.stage[i] = "static"]
               /\ io' = Append(io, IO("stat",
                                      getStaticFilePath(cfg, method, requestPath)))
    /\ UNCHANGED <<server, serverResponse, adapter, cfg, fs, request, pc,
                   requestPath, suggested, staticFilePath, mimeType, staticFile,
                   stream, consumer, response, layers, invoked, log>>

\* The stat of a static file path settles: then(_ => method) or
\* catch(_ => undefined).
ProbeStaticStatSettles(i) ==
    /\ pc = "AllowProbe"
    /\ i \in 1..Len(probes.stage)
    /\ probes.stage[i] = "static"
    /\ LET method == lowercasedRoutableMethods[i]
           value == IF StatSucceeds(fs, getStaticFilePath(cfg, method, requestPath))
                    THEN method ELSE Undefined
       IN probes' = [stage |-> [probes.stage EXCEPT ![i] = "done"],
                     results |-> SettleProbe(probes.results, i, value)]
    /\ UNCHANGED <<server, serverResponse, adapter, cfg, fs, request, pc,
                   requestPath, suggested, staticFilePath, mimeType, staticFile,
                   stream, consumer, response, layers, io, invoked, log>>

\* Every chain has settled: Promise.all resolves, the results are filtered
\* and the error chain is entered (lines 559-577).
PromiseAllSettles ==
    /\ pc = "AllowProbe"
    /\ probes.stage # <<>>
    /\ \A i \in 1..Len(probes.stage) : probes.stage[i] = "done"
    /\ LET allowed == FilterDefined(probes.results)
       IN IF Len(allowed) > 0
          THEN handleError(SuggestedResponseDetails(405,
                               "allow" :> AllowHeader(allowed)), layers, io)
          ELSE handleError(SuggestedResponseDetails(404, NoHeaders), layers, io)
    /\ UNCHANGED <<server, serverResponse, adapter, cfg, fs, request,
                   requestPath, staticFilePath, mimeType, staticFile, stream,
                   consumer, response, invoked, log, probes>>

ProbeNext ==
    \/ \E i \in 1..Len(lowercasedRoutableMethods) : ProbeHandlerStatSettles(i)
    \/ \E i \in 1..Len(lowercasedRoutableMethods) : ProbeStaticStatSettles(i)
    \/ PromiseAllSettles

\* The file systems of the probe: three or four of a handler file that is no
\* valid handler, a static file, a directory and a file named with the
\* encoded suffix, each for a method of its own.
ProbePlaces(configuration) ==
    LET suffix == configuration.handlerFilenameSuffix
    IN { [path |-> InMethodDirectory("get", Key \o suffix),
          entry |-> File(UntaggedModule, Chunks(1))],
         [path |-> InMethodDirectory("post", Key),
          entry |-> File(NoModule, Chunks(1))],
         [path |-> InMethodDirectory("delete", Key),
          entry |-> Directory],
         [path |-> InMethodDirectory("put", Key \o encodeURIComponent(suffix)),
          entry |-> File(HandlerModule(418), Chunks(1))] }

ProbeFileSystems(configuration) ==
    { [path \in { place.path : place \in chosen } |->
          (CHOOSE place \in chosen : place.path = path).entry] :
      chosen \in { some \in SUBSET ProbePlaces(configuration) :
                      Cardinality(some) >= 3 } }

\* The catch of lines 525-531 has closed the file, if one was opened, and
\* has made the stat call of every handler module path.
InitProbe ==
    /\ cfg \in Configurations
    /\ fs \in ProbeFileSystems(cfg)
    /\ request \in [method : {"GET", "PATCH", "DELETE"},
                    pathname : {<<"/">> \o Key}]
    /\ requestPath = Key
    /\ LET specifier == getHandlerModulePath(cfg, request.method, requestPath)
           module == Import(fs, specifier)
           valid == module.loads /\ isRequestHandlerModule(module)
           candidate == getStaticFilePath(cfg, request.method, requestPath)
           path == ResolvedStaticFilePath(cfg, fs, candidate)
           opened == OpenSucceeds(fs, path)
       IN /\ ~(valid /\ module.behaviour # "throws")
          /\ Resolve(fs, path).kind # "file"
          /\ invoked = IF valid
                       THEN <<Invocation(ModuleFilePath(specifier), request.method,
                                         SuggestedResponseDetails(200, NoHeaders))>>
                       ELSE <<>>
          /\ staticFilePath = path
          /\ mimeType = getType(path)
          /\ staticFile = IF opened
                          THEN [state |-> "closed", path |-> path, closeCalls |-> 1]
                          ELSE NoFile
          /\ io = <<IO("import", specifier), IO("readlink", candidate),
                    IO("open", path)>>
                  \o (IF opened THEN <<IO("fstat", path), IO("close", path)>>
                      ELSE <<>>)
                  \o [i \in 1..Len(lowercasedRoutableMethods) |->
                         IO("stat", getHandlerModulePath(cfg,
                                        lowercasedRoutableMethods[i], requestPath))]
    /\ suggested = SuggestedResponseDetails(200, NoHeaders)
    /\ pc = "AllowProbe"
    /\ stream = NoStream
    /\ consumer = NoConsumer
    /\ response = NoResponse
    /\ layers = <<"MethodCheck", "HandlerLookup", "StaticLookup", "AllowProbe">>
    /\ log = <<"Could not handle dynamically", "Falling back to a static file",
               "Could not handle as a static file">>
    /\ server = NoServer
    /\ serverResponse = NoServerResponse
    /\ adapter = NoAdapter
    /\ probes = [stage |-> [i \in 1..Len(lowercasedRoutableMethods) |-> "handler"],
                 results |-> [i \in 1..Len(lowercasedRoutableMethods) |-> Undefined]]

ProbeSpec == InitProbe /\ [][ProbeNext]_vars

(***************************************************************************)
(* Vocabulary of the claims.                                               *)
(***************************************************************************)
RoutableMethods == {"GET", "HEAD", "POST", "PUT", "PATCH", "DELETE"}

\* The request has a routing key: its method is routable and its path decoded.
Routed == request.method \in RoutableMethods /\ pc \notin {"Idle", "Rejected"}

\* The handler candidate of a method and a routing key: the file the handler
\* invoker loads for them.
HandlerCandidate(method, key) ==
    ModuleFilePath(getHandlerModulePath(cfg, method, key))

\* The static candidate of a method and a routing key.
StaticCandidate(method, key) == getStaticFilePath(cfg, method, key)

\* A valid handler module at a path, whose handler returns a response.
AnswersAt(path) ==
    LET entry == Resolve(fs, path)
    IN /\ entry.kind = "file"
       /\ entry.module.loads
       /\ entry.module.hasDefault
       /\ entry.module.isFunction
       /\ entry.module.isHandler
       /\ entry.module.behaviour = "returns"

\* What the handler at a path answers.
AnswerAt(path) ==
    [status |-> Resolve(fs, path).module.status,
     headers |-> "custom-header" :> <<"custom header value">>,
     body |-> [kind |-> "text", text |-> path]]

\* The routing key collides with the handler suffix or the error handler path.
Collides ==
    \/ EndsWith(requestPath, cfg.handlerFilenameSuffix)
    \/ requestPath = cfg.errorHandler

ErrorModuleFile == publicDirectory \o <<"/">> \o cfg.errorHandler

OperationsDone == { io[i].operation : i \in 1..Len(io) }

LayersEntered == { layers[i] : i \in 1..Len(layers) }

IsPrefix(s, t) == Len(s) <= Len(t) /\ SubSeq(t, 1, Len(s)) = s

(***************************************************************************)
(* C1.  When a valid handler module is at the handler candidate of the     *)
(* request's routable method and routing key, the response is exactly the  *)
(* response the handler returned (status, headers and body, a status       *)
(* outside the dispatcher's own set included), and nothing but the import  *)
(* of that module is done: no static lookup, no Allow probe, no error      *)
(* chain.                                                                  *)
(***************************************************************************)
C1_HandlerFound ==
    /\ Routed
    /\ AnswersAt(HandlerCandidate(request.method, requestPath))

C1_HandlerResponseUnmodified ==
    C1_HandlerFound =>
        /\ pc \in {"HandlerImport", "Responded"}
        /\ layers = <<"MethodCheck", "HandlerLookup">>
        /\ OperationsDone = {"import"}
        /\ Len(io) = 1
        /\ staticFile = NoFile
        /\ pc = "Responded" =>
              /\ response = AnswerAt(HandlerCandidate(request.method, requestPath))
              /\ Len(invoked) = 1
              /\ invoked[1].details = SuggestedResponseDetails(200, NoHeaders)

C1_Witness ==
    /\ C1_HandlerFound
    /\ pc = "Responded"
    /\ request.method = "HEAD"
    /\ response.status = 418

(***************************************************************************)
(* C2.  A GET request whose routing key has no answering handler and a     *)
(* regular file at its static candidate gets status 200, cache-control     *)
(* max-age=31536000, the content-type of the file's path (none when no     *)
(* type is known) and a body that carries the file's bytes in order, all   *)
(* of them once the body has ended without the consumer cancelling it;     *)
(* provided the routing key neither ends with the handler filename suffix  *)
(* nor is the error handler path.                                          *)
(***************************************************************************)
C2_RegularFile ==
    /\ Routed
    /\ request.method = "GET"
    /\ ~AnswersAt(HandlerCandidate("GET", requestPath))
    /\ Lookup(fs, StaticCandidate("GET", requestPath)).kind = "file"

C2_Headers(path) ==
    IF getType(path) = Null
    THEN "cache-control" :> <<"max-age=", "31536000">>
    ELSE ("cache-control" :> <<"max-age=", "31536000">>)
            @@ ("content-type" :> <<getType(path)>>)

C2_Served ==
    /\ pc \in {"HandlerImport", "Readlink", "Open", "Stat", "Responded"}
    /\ LayersEntered \subseteq {"MethodCheck", "HandlerLookup", "StaticLookup"}
    /\ pc = "Responded" =>
          LET content == Lookup(fs, StaticCandidate("GET", requestPath)).content
          IN /\ response.status = 200
             /\ response.headers = C2_Headers(StaticCandidate("GET", requestPath))
             /\ response.body.kind = "stream"
             /\ IsPrefix(consumer.received \o stream.queue, content)
             /\ (stream.state = "closed" /\ ~consumer.cancelled)
                    => consumer.received = content

C2_StaticFileServed == (C2_RegularFile /\ ~Collides) => C2_Served

\* The same without the proviso.
C2_AnyRegularFileServed == C2_RegularFile => C2_Served

C2_Witness ==
    /\ C2_RegularFile
    /\ ~Collides
    /\ pc = "Responded"
    /\ stream.state = "closed"
    /\ ~consumer.cancelled
    /\ Len(consumer.received) = MaxChunks
    /\ "content-type" \in DOMAIN response.headers

(***************************************************************************)
(* C3.  A HEAD request answered by the static file server gets status 200, *)
(* the headers a GET of the same file gets, no body, and the file it       *)
(* opened is closed when the response is returned.  It is so answered      *)
(* whenever a file is at the static candidate, no handler answers and the  *)
(* routing key passes the guards.                                          *)
(***************************************************************************)
C3_StaticFile ==
    /\ Routed
    /\ request.method = "HEAD"
    /\ ~AnswersAt(HandlerCandidate("HEAD", requestPath))
    /\ Resolve(fs, StaticCandidate("GET", requestPath)).kind = "file"
    /\ ~Collides

C3_HeadAnsweredAsGet ==
    /\ C3_StaticFile =>
          /\ pc \in {"HandlerImport", "Readlink", "Open", "Stat", "HeadClose",
                     "Responded"}
          /\ LayersEntered \subseteq {"MethodCheck", "HandlerLookup", "StaticLookup"}
    /\ (/\ Routed
        /\ request.method = "HEAD"
        /\ pc = "Responded"
        /\ layers = <<"MethodCheck", "HandlerLookup", "StaticLookup">>) =>
          /\ response.status = 200
          /\ response.headers = StaticFileHeaders(getType(staticFile.path))
          /\ response.body = NoBody
          /\ stream = NoStream
          /\ staticFile.state = "closed"
          /\ staticFile.closeCalls = 1

C3_Witness ==
    /\ C3_StaticFile
    /\ pc = "Responded"
    /\ response.body = NoBody
    /\ "content-type" \in DOMAIN response.headers
    /\ staticFile.state = "closed"

(***************************************************************************)
(* C4.  A request whose method is not routable goes from the method check  *)
(* to the error chain with suggested status 501 and no headers; no handler *)
(* lookup, static lookup or Allow probe is made for it, only the error     *)
(* module is imported; and it is answered with status 501 unless a valid   *)
(* error handler answers it, whose response is then returned as it is.     *)
(***************************************************************************)
C4_NotRoutable == pc # "Idle" /\ request.method \notin RoutableMethods

C4_OnlyErrorChain ==
    /\ pc \in {"ErrorImport", "Responded"}
    /\ layers = <<"MethodCheck", "ErrorChain">>
    /\ suggested = [status |-> 501, headers |-> <<>>]
    /\ io = <<[operation |-> "import", path |-> getErrorModulePath(cfg)]>>
    /\ staticFile = NoFile

C4_NotImplemented ==
    C4_NotRoutable =>
        /\ C4_OnlyErrorChain
        /\ pc = "Responded" =>
              IF AnswersAt(ErrorModuleFile)
              THEN response = AnswerAt(ErrorModuleFile)
              ELSE /\ response.status = 501
                   /\ response.body = [kind |-> "text", text |-> <<"Not Implemented">>]

\* The same with status 501 whatever the error handler does.
C4_AlwaysReturns501 ==
    C4_NotRoutable =>
        /\ C4_OnlyErrorChain
        /\ pc = "Responded" => response.status = 501

C4_Witness ==
    /\ C4_NotRoutable
    /\ pc = "Responded"
    /\ response.status = 501
    /\ fs # <<>>

(***************************************************************************)
(* C5.  When nothing exists at the handler candidate and at the static     *)
(* candidate of the routing key for any routable method, a request with a  *)
(* routable method ends in the error chain with suggested status 404 and   *)
(* no headers, never 405, and is answered by the error handler or by the   *)
(* 404 text/plain fallback.                                                *)
(***************************************************************************)
C5_NothingAt ==
    /\ Routed
    /\ \A method \in RoutableMethods :
          /\ Lookup(fs, HandlerCandidate(method, requestPath)).kind = "absent"
          /\ Lookup(fs, StaticCandidate(method, requestPath)).kind = "absent"

C5_NotFound ==
    C5_NothingAt =>
        /\ pc \in {"ErrorImport", "Responded"} =>
              /\ layers[Len(layers)] = "ErrorChain"
              /\ suggested = [status |-> 404, headers |-> <<>>]
        /\ pc = "Responded" =>
              IF AnswersAt(ErrorModuleFile)
              THEN response = AnswerAt(ErrorModuleFile)
              ELSE response = [status |-> 404,
                               headers |-> "content-type" :> <<"text/plain">>,
                               body |-> [kind |-> "text", text |-> <<"Not Found">>]]

(***************************************************************************)
(* C6.  When nothing exists for the requested method at the routing key    *)
(* and a handler file or a static file exists there for another routable   *)
(* method, the request ends in the error chain with status 405 and an      *)
(* allow header that names that other method; and the allow header names   *)
(* no method that has neither candidate at the routing key.                *)
(***************************************************************************)
C6_ExistsFor(method) ==
    \/ Resolve(fs, HandlerCandidate(method, requestPath)).kind # "absent"
    \/ Resolve(fs, StaticCandidate(method, requestPath)).kind # "absent"

C6_NothingForMethod ==
    /\ Routed
    /\ ~Collides
    /\ ~C6_ExistsFor(request.method)
    /\ pc \in {"ErrorImport", "Responded"}

C6_Allowed ==
    IF "allow" \in DOMAIN suggested.headers
    THEN { suggested.headers["allow"][i] :
              i \in 1..Len(suggested.headers["allow"]) } \ {", "}
    ELSE {}

C6_MethodNotAllowed ==
    C6_NothingForMethod =>
        /\ \A other \in RoutableMethods \ {request.method} :
              C6_ExistsFor(other) =>
                  /\ suggested.status = 405
                  /\ other \in C6_Allowed
        /\ \A listed \in C6_Allowed :
              listed \in RoutableMethods /\ C6_ExistsFor(listed)

(***************************************************************************)
(* C7.  For a request with a routable method whose routing key ends with   *)
(* the handler filename suffix or is the error handler path, nothing is    *)
(* read, opened or read on as a static file, so no source of a handler is  *)
(* served as a static body; and unless a handler at the routing key's      *)
(* handler candidate answers it, the request ends in the error chain with  *)
(* status 404.                                                             *)
(***************************************************************************)
C7_Guarded == Routed /\ Collides

C7_NothingOpened ==
    /\ staticFile = NoFile
    /\ stream = NoStream
    /\ OperationsDone \subseteq {"import"}
    /\ "AllowProbe" \notin LayersEntered
    /\ response.body.kind # "stream"

C7_EndsIn404 ==
    /\ pc \in {"ErrorImport", "Responded"}
    /\ layers = <<"MethodCheck", "HandlerLookup", "StaticLookup", "ErrorChain">>
    /\ suggested = [status |-> 404, headers |-> <<>>]

C8_ClosedAtMostOnce ==
    /\ staticFile.closeCalls <= 1
    /\ Cardinality({ i \in 1..Len(io) : io[i].operation = "close" }) <= 1

C8_Witness ==
    /\ consumer.cancelled
    /\ stream.loop = "ended"
    /\ stream.position = Len(FileContent)
    /\ staticFile.closeCalls = 1

(***************************************************************************)
(* C9.  Every file the static file server opens is eventually closed: when *)
(* it is not a regular file, when the method is HEAD, when the body is     *)
(* read to its end, when a read fails and when the consumer cancels the    *)
(* body.                                                                   *)
(***************************************************************************)
C9_EventuallyClosed ==
    (staticFile.state = "open") ~> (staticFile.state = "closed")

C9_Witness ==
    /\ consumer.cancelled
    /\ consumer.received # <<>>
    /\ Len(consumer.received) < Len(FileContent)
    /\ staticFile.state = "closed"

(***************************************************************************)
(* C10.  When the error chain is entered with a status of 400, 404, 405,   *)
(* 406, 500 or 501 and the error handler is missing, is not a valid        *)
(* handler module or throws, the response has that status, the suggested   *)
(* headers (allow for 405) with content-type text/plain, and the canonical *)
(* phrase of the status as its body; this step always yields a response.   *)
(***************************************************************************)
C10_Phrase(status) ==
    CASE status = 400 -> "Bad Request"
      [] status = 404 -> "Not Found"
      [] status = 405 -> "Method Not Allowed"
      [] status = 406 -> "Not Acceptable"
      [] status = 500 -> "Internal Server Error"
      [] status = 501 -> "Not Implemented"

C10_PlainTextFallback ==
    /\ pc = "ErrorImport" =>
          /\ suggested.status \in {400, 404, 405, 406, 500, 501}
          /\ PlainTextResponse(suggested).body.kind = "text"
    /\ (/\ pc = "Responded"
        /\ layers[Len(layers)] = "ErrorChain"
        /\ ~AnswersAt(ErrorModuleFile)) =>
          /\ response.status = suggested.status
          /\ response.status \in {400, 404, 405, 406, 500, 501}
          /\ DOMAIN response.headers = DOMAIN suggested.headers \cup {"content-type"}
          /\ response.headers["content-type"] = <<"text/plain">>
          /\ \A name \in DOMAIN suggested.headers :
                response.headers[name] = suggested.headers[name]
          /\ suggested.status = 405 => "allow" \in DOMAIN response.headers
          /\ response.body = [kind |-> "text", text |-> <<C10_Phrase(suggested.status)>>]

C10_Witness ==
    /\ pc = "Responded"
    /\ layers[Len(layers)] = "ErrorChain"
    /\ Lookup(fs, ErrorModuleFile).kind = "file"
    /\ Lookup(fs, ErrorModuleFile).module.behaviour = "throws"
    /\ response.status = 405
    /\ "allow" \in DOMAIN response.headers
    /\ response.body.text = <<"Method Not Allowed">>

(***************************************************************************)
(* C11.  When the error chain is entered and a valid handler module is at  *)
(* publicDirectory/errorHandler, that handler is invoked with the request  *)
(* and the suggested status and headers the chain was entered with, and    *)
(* what it returns is the response, whatever its status, for every method  *)
(* and routing key of the request.                                         *)
(***************************************************************************)
C11_ErrorHandlerAnswers ==
    (/\ pc = "Responded"
     /\ layers[Len(layers)] = "ErrorChain"
     /\ AnswersAt(ErrorModuleFile)) =>
        /\ response = AnswerAt(ErrorModuleFile)
        /\ invoked # <<>>
        /\ invoked[Len(invoked)] =
              [module |-> ErrorModuleFile, method |-> request.method,
               details |-> suggested]

(***************************************************************************)
(* C12.  For every request, whatever its method and its path (one with a   *)
(* malformed escape sequence included) and whatever the I/O steps yield,   *)
(* the dispatcher produces a Response: the promise of the request handler  *)
(* is never rejected.                                                      *)
(***************************************************************************)
C12_NeverRejects == pc # "Rejected"

(***************************************************************************)
(* C13.  A response is either what a handler (of the routing key or of the *)
(* error chain) returned, with the status that handler chose, or is built  *)
(* by the dispatcher itself: a static file response with status 200, or    *)
(* the text/plain fallback with the suggested status, one of 404, 405 and  *)
(* 501.                                                                    *)
(***************************************************************************)
C13_HandlerAnswered ==
    /\ invoked # <<>>
    /\ AnswersAt(invoked[Len(invoked)].module)
    /\ response = AnswerAt(invoked[Len(invoked)].module)

highWaterMark == 1

C14_BoundedBuffer == Len(stream.queue) <= highWaterMark

(***************************************************************************)
(* C20.  Within a request the layers are entered in the order method       *)
(* check, handler lookup, static lookup, Allow probe, error chain, each at *)
(* most once and none again after a later one; the static lookup is        *)
(* entered only when no handler answers, and does no I/O before the        *)
(* handler import has settled; the Allow probe is entered only when the    *)
(* static lookup found no regular file to serve.                           *)
(***************************************************************************)
C20_Rank(layer) ==
    CASE layer = "MethodCheck" -> 1
      [] layer = "HandlerLookup" -> 2
      [] layer = "StaticLookup" -> 3
      [] layer = "AllowProbe" -> 4
      [] layer = "ErrorChain" -> 5

\* The rank of a call in io: the import of the handler module is the first
\* call of a routed request, every other import is that of the error module.
C20_CallRank(i) ==
    CASE io[i].operation = "import" ->
            IF i = 1 /\ request.method \in RoutableMethods THEN 2 ELSE 5
      [] io[i].operation \in {"readlink", "open", "fstat", "close"} -> 3
      [] io[i].operation = "stat" -> 4

C20_LayersInOrder ==
    /\ \A i, j \in 1..Len(layers) :
          i < j => C20_Rank(layers[i]) < C20_Rank(layers[j])
    /\ \A i \in 1..(Len(io) - 1) : C20_CallRank(i) <= C20_CallRank(i + 1)
    /\ \A i \in 1..Len(io) :
          \E k \in 1..Len(layers) : C20_Rank(layers[k]) = C20_CallRank(i)
    /\ pc = "HandlerImport" => Len(io) = 1
    /\ "StaticLookup" \in LayersEntered =>
          ~AnswersAt(HandlerCandidate(request.method, requestPath))
    /\ "AllowProbe" \in LayersEntered =>
          /\ "StaticLookup" \in LayersEntered
          /\ Resolve(fs, staticFilePath).kind # "file"
          /\ staticFile.state # "open"
          /\ stream = NoStream

C20_Witness ==
    /\ pc = "Responded"
    /\ layers = <<"MethodCheck", "HandlerLookup", "StaticLookup", "AllowProbe",
                  "ErrorChain">>
    /\ staticFile.closeCalls = 1
    /\ suggested.status = 405

(***************************************************************************)
(* C15.  The promise of listen resolves once the server is listening and   *)
(* rejects when the port cannot be bound: after a failed bind it is not    *)
(* left pending.                                                           *)
(***************************************************************************)
C15_FailedBindRejects ==
    /\ server.listenPromise = "resolved" => server.listenEvent = "emitted"
    /\ server.listenEvent = "uncaught" => server.listenPromise = "rejected"

(***************************************************************************)
(* C16.  The promise of close rejects when close is called on a server     *)
(* that is not listening (never listened, or closed before); called on a   *)
(* listening server, close stops the server from accepting connections and *)
(* its promise resolves, and only when every connection has ended.         *)
(***************************************************************************)
C16_Settled ==
    \A i \in 1..Len(server.closePromises) :
        LET promise == server.closePromises[i]
        IN /\ promise.state = "resolved" =>
                 /\ promise.listening
                 /\ server.connections = 0
                 /\ ~server.handle
           /\ promise.state = "rejected" => ~promise.listening

\* From the call of close to its settling the connections only go down.
C16_NoNewConnection ==
    (\E i \in 1..Len(server.closePromises) :
        server.closePromises[i].state = "pending")
        => server'.connections <= server.connections

C16_Settles(i) ==
    (Len(server.closePromises) >= i)
        ~> (/\ Len(server.closePromises) >= i
            /\ server.closePromises[i].state =
                  IF server.closePromises[i].listening
                  THEN "resolved" ELSE "rejected")

C16_CloseSettles ==
    /\ []C16_Settled
    /\ [][C16_NoNewConnection]_vars
    /\ \A i \in 1..MaxCloseCalls : C16_Settles(i)

C16_Witness ==
    /\ server.listenPromise = "resolved"
    /\ Len(server.closePromises) >= 2
    /\ server.closePromises[1].state = "resolved"
    /\ server.closePromises[2].state = "rejected"

(***************************************************************************)
(* C17.  writeWebResponseToServerResponse sets the status code, the status *)
(* text and all the headers of the web response on the raw response before *)
(* any byte of the body is written, and the raw response is finished       *)
(* exactly once, whether the body is absent, streamed to its end or        *)
(* erroring on the way.                                                    *)
(***************************************************************************)
C17_HeadOf(webResponse) ==
    [statusCode |-> webResponse.status,
     statusMessage |-> webResponse.statusText,
     headers |-> webResponse.headers]

ErrorModule == Resolve(fs, ErrorModuleFile).module

C18_Tagged(module) ==
    \E f \in HandlerFunctions : module = ModuleWithDefault(requestHandler(f))

C18_AcceptedIffTagged ==
    /\ \A module \in ModuleShapes :
          (module.loads /\ isRequestHandlerModule(module)) <=> C18_Tagged(module)
    /\ pc = "Responded" =>
          /\ (invoked # <<>>) <=> C18_Tagged(ErrorModule)
          /\ ~C18_Tagged(ErrorModule) => response = PlainTextResponse(suggested)
          /\ (C18_Tagged(ErrorModule) /\ ErrorModule.behaviour # "throws") =>
                response = HandlerResponse(ErrorModule, ErrorModuleFile,
                                           request.method, suggested)

C18_Witness ==
    /\ pc = "Responded"
    /\ ErrorModule = ModuleWithDefault(HandlerFunction("returns", 410))
    /\ invoked = <<>>
    /\ response.body.kind = "text"
    /\ response.status = suggested.status

(***************************************************************************)
(* C19.  A handler built with page returns, for every request method and   *)
(* every suggested response details d, a response with the status of d and *)
(* the headers of d plus content-type text/html; charset=utf-8, without a  *)
(* body when the method is HEAD; as the error handler it answers a 404,    *)
(* 405 or 501 with that status and, for 405, with the allow header.        *)
(***************************************************************************)
C19_Details ==
    ErrorResponseDetails \cup { SuggestedResponseDetails(200, NoHeaders) }

C19_IsPageOf(r, method, d) ==
    /\ r.status = d.status
    /\ DOMAIN r.headers = DOMAIN d.headers \cup {"content-type"}
    /\ r.headers["content-type"] = <<"text/html; charset=utf-8">>
    /\ \A name \in DOMAIN d.headers :
          name # "content-type" => r.headers[name] = d.headers[name]
    /\ (method = "HEAD") <=> (r.body = NoBody)

C21_HandlerFailed ==
    /\ Routed
    /\ pc # "HandlerImport"
    /\ ~AnswersAt(HandlerCandidate(request.method, requestPath))

C21_FallsToStaticLookup ==
    /\ C21_HandlerFailed =>
          /\ Len(layers) >= 3
          /\ SubSeq(layers, 1, 3) = <<"MethodCheck", "HandlerLookup", "StaticLookup">>
          /\ Len(io) >= 2
          /\ io[1] = IO("import",
                        getHandlerModulePath(cfg, request.method, requestPath))
          /\ io[2] = IF Collides
                     THEN IO("import", getErrorModulePath(cfg))
                     ELSE IO("readlink",
                             StaticCandidate(request.method, requestPath))
          /\ Collides => (layers[4] = "ErrorChain" /\ suggested.status = 404)
    /\ pc = "Rejected" => (io = <<>> /\ invoked = <<>>)

C21_Witness ==
    /\ C21_HandlerFailed
    /\ invoked # <<>>
    /\ Resolve(fs, HandlerCandidate(request.method, requestPath)).module.behaviour
          = "throws"
    /\ pc = "Responded"
    /\ response.body.kind = "stream"

(***************************************************************************)
(* C22.  When the handler lookup fails because no module exists at the     *)
(* handler candidate, nothing is logged as an error for it; every other    *)
(* failure of the handler lookup is logged before the static lookup.       *)
(***************************************************************************)
C22_Logged == \E i \in 1..Len(log) : log[i] = "Could not handle dynamically"

C22_ModuleMissing ==
    Resolve(fs, HandlerCandidate(request.method, requestPath)).kind = "absent"

C22_OnlyOtherFailuresLogged ==
    (Routed /\ pc # "HandlerImport") =>
        IF AnswersAt(HandlerCandidate(request.method, requestPath))
        THEN ~C22_Logged
        ELSE C22_Logged <=> ~C22_ModuleMissing

(***************************************************************************)
(* C23.  For a routing key that ends with the handler suffix or is the     *)
(* error handler path, the handler module of the key is imported first     *)
(* and, when valid, invoked; the key is turned away with a 404 after that  *)
(* lookup has failed and before any static file call.                      *)
(***************************************************************************)
C23_HandlerImport ==
    IO("import", getHandlerModulePath(cfg, request.method, requestPath))

C23_GuardLogged ==
    \E i \in 1..Len(log) :
        /\ log[i] \in {"Request path ends in handler suffix",
                       "Request path was for error handler"}
        /\ \E j \in 1..(i - 1) : log[j] = "Could not handle dynamically"

C24_Without(files, path) == [q \in DOMAIN files \ {path} |-> files[q]]

C24_DetailsOn(files) ==
    LET allowed == allowedMethods(cfg, files, requestPath)
    IN IF Len(allowed) > 0
       THEN SuggestedResponseDetails(405, "allow" :> AllowHeader(allowed))
       ELSE SuggestedResponseDetails(404, NoHeaders)

C24_DirectoryCandidate ==
    /\ Routed
    /\ ~Collides
    /\ pc \in {"ErrorImport", "Responded"}
    /\ ~AnswersAt(HandlerCandidate(request.method, requestPath))
    /\ StaticCandidate(request.method, requestPath) \in DOMAIN fs
    /\ fs[StaticCandidate(request.method, requestPath)] = Directory

C24_DirectoryAsMissing ==
    C24_DirectoryCandidate =>
        LET missing == C24_Without(fs, StaticCandidate(request.method, requestPath))
        IN /\ suggested = C24_DetailsOn(missing)
           /\ (pc = "Responded" /\ ~AnswersAt(ErrorModuleFile)) =>
                 /\ response.status = C24_DetailsOn(missing).status
                 /\ response.headers =
                       ("content-type" :> <<"text/plain">>)
                           @@ C24_DetailsOn(missing).headers

(***************************************************************************)
(* C25.  For every routing key the handler candidate and the static        *)
(* candidate of HEAD are those of GET, in the handler lookup, the static   *)
(* lookup and the Allow probe; no path under publicDirectory/head is ever  *)
(* imported, read, opened or probed; and GET is in an allow header exactly *)
(* when HEAD is.                                                           *)
(***************************************************************************)
C25_Keys == { <<>>, Key, requestPath }

C25_HeadDirectory == publicDirectory \o <<"/", "head", "/">>

C25_AllowSet ==
    IF "allow" \in DOMAIN suggested.headers
    THEN { suggested.headers["allow"][i] :
              i \in 1..Len(suggested.headers["allow"]) }
    ELSE {}

C26_Calls(operation) == { i \in 1..Len(io) : io[i].operation = operation }

C26_Candidate == StaticCandidate(request.method, requestPath)

C26_Opened ==
    LET entry == Lookup(fs, C26_Candidate)
    IN IF entry.kind = "link"
       THEN IF entry.target[1] = "/"
            THEN entry.target
            ELSE publicDirectory \o <<"/">> \o entry.target
       ELSE C26_Candidate

C26_TypeOf(path) ==
    CASE path[Len(path)] = ".css" -> <<"text/css">>
      [] path[Len(path)] = ".js" -> <<"text/javascript">>
      [] OTHER -> <<>>

C27_Exists(method) ==
    \/ Resolve(fs, HandlerCandidate(method, requestPath)).kind # "absent"
    \/ Resolve(fs, StaticCandidate(method, requestPath)).kind # "absent"

C27_Allowed ==
    IF "allow" \in DOMAIN suggested.headers
    THEN { suggested.headers["allow"][i] :
              i \in 1..Len(suggested.headers["allow"]) } \ {", "}
    ELSE {}

C27_AllowedIffExists ==
    (pc \in {"ErrorImport", "Responded"} /\ "AllowProbe" \in LayersEntered) =>
        /\ \A method \in RoutableMethods :
              (method \in C27_Allowed) <=> C27_Exists(method)
        /\ suggested.status = IF C27_Allowed = {} THEN 404 ELSE 405

(***************************************************************************)
(* C28.  The allow header of a 405 does not depend on the order in which   *)
(* the existence probes of the methods complete: it lists every allowed    *)
(* method once, in upper case, joined by a comma and a space, in the order *)
(* DELETE, GET, PATCH, POST, PUT, HEAD.                                    *)
(***************************************************************************)
C28_Order == <<"DELETE", "GET", "PATCH", "POST", "PUT", "HEAD">>

C28_Found(method) ==
    \/ StatSucceeds(fs, getHandlerModulePath(cfg, method, requestPath))
    \/ StatSucceeds(fs, getStaticFilePath(cfg, method, requestPath))

C28_Header ==
    LET found == SelectSeq(C28_Order, C28_Found)
    IN [i \in 1..(2 * Len(found) - 1) |->
            IF i % 2 = 1 THEN found[(i + 1) \div 2] ELSE ", "]

C28_SameAllowHeader ==
    pc = "ErrorImport" =>
        /\ suggested.status \in {404, 405}
        /\ suggested.status = 404 =>
              /\ suggested.headers = NoHeaders
              /\ \A method \in RoutableMethods : ~C28_Found(method)
        /\ suggested.status = 405 =>
              /\ DOMAIN suggested.headers = {"allow"}
              /\ suggested.headers["allow"] = C28_Header
              /\ suggested.headers["allow"]
                    = AllowHeader(allowedMethods(cfg, fs, requestPath))

C28_Witness ==
    /\ pc = "ErrorImport"
    /\ suggested.status = 405
    /\ Len(suggested.headers["allow"]) >= 5
    /\ \E i, j \in 1..Len(io) :
          /\ i < j
          /\ io[i] = IO("stat", getStaticFilePath(cfg, "put", requestPath))
          /\ io[j] = IO("stat", getStaticFilePath(cfg, "delete", requestPath))

(***************************************************************************)
(* C29.  A handler found by the handler lookup is invoked with the status  *)
(* 200 and no headers; every invocation of the error handler, and every    *)
(* entry of the error chain, carries a status other than 200; details with *)
(* the status 405 carry an allow header that is not empty, and nothing     *)
(* else, and details with any other status carry no headers.               *)
(***************************************************************************)
C29_WellFormed(details) ==
    IF details.status = 405
    THEN /\ DOMAIN details.headers = {"allow"}
         /\ details.headers["allow"] # <<>>
    ELSE details.headers = NoHeaders

C29_SuggestedDetails ==
    /\ \A i \in 1..Len(invoked) :
          /\ C29_WellFormed(invoked[i].details)
          /\ IF invoked[i].module = ModuleFilePath(getErrorModulePath(cfg))
             THEN /\ invoked[i].details.status \in {404, 405, 501}
                  /\ i = Len(invoked)
                  /\ "ErrorChain" \in LayersEntered
             ELSE /\ invoked[i].details = SuggestedResponseDetails(200, NoHeaders)
                  /\ invoked[i].module
                        = HandlerCandidate(request.method, requestPath)
                  /\ i = 1
    /\ pc \notin {"Idle", "Rejected"} =>
          /\ C29_WellFormed(suggested)
          /\ IF "ErrorChain" \in LayersEntered
             THEN suggested.status \in {404, 405, 501}
             ELSE suggested = SuggestedResponseDetails(200, NoHeaders)

C29_Witness ==
    /\ pc = "Responded"
    /\ Len(invoked) = 2
    /\ invoked[1].details.status = 200
    /\ invoked[2].details.status = 405
    /\ invoked[2].module = ErrorModuleFile

(***************************************************************************)
(* C30.  When a request ends in the error chain with the status 405, the   *)
(* requested method is not in the allow header: something exists at the    *)
(* routing key for another method and nothing exists there for the         *)
(* requested one.                                                          *)
(***************************************************************************)
C30_Allowed ==
    { suggested.headers["allow"][i] : i \in 1..Len(suggested.headers["allow"]) }
        \ {", "}

C30_ExistsFor(method) ==
    \/ Resolve(fs, HandlerCandidate(method, requestPath)).kind # "absent"
    \/ Resolve(fs, StaticCandidate(method, requestPath)).kind # "absent"

C30_RequestedMethodNotAllowed ==
    (Routed /\ pc \in {"ErrorImport", "Responded"} /\ suggested.status = 405) =>
        /\ request.method \notin C30_Allowed
        /\ ~C30_ExistsFor(request.method)
        /\ \E other \in RoutableMethods \ {request.method} : C30_ExistsFor(other)

(***************************************************************************)
(* C31.  For every routable method and the routing key of the request, the *)
(* entry whose existence the Allow probe checks for the handler candidate  *)
(* is the entry the handler invoker loads: a handler module the invoker    *)
(* can load is found by the probe, and what the probe finds is what the    *)
(* invoker would load.                                                     *)
(***************************************************************************)
C31_Probed(method) == getHandlerModulePath(cfg, method, requestPath)

C31_Loaded(method) == ModuleFilePath(getHandlerModulePath(cfg, method, requestPath))

C31_ProbeFindsWhatIsLoaded ==
    Routed =>
        \A method \in RoutableMethods :
            /\ Import(fs, getHandlerModulePath(cfg, method, requestPath)).loads
                  => StatSucceeds(fs, C31_Probed(method))
            /\ StatSucceeds(fs, C31_Probed(method)) =>
                  /\ StatSucceeds(fs, C31_Loaded(method))
                  /\ Resolve(fs, C31_Probed(method)) = Resolve(fs, C31_Loaded(method))

=============================================================================
